---- MODULE Spec2Model ----
(***************************************************************************)
(* The multiplication example notebook, docs/examples/basic/               *)
(* multiplication.ipynb, as a state machine: its code cells are executed   *)
(* once each, in document order, one statement per step, against a heap    *)
(* of networks, ensembles, nodes, connections, probes and simulators.      *)
(*                                                                         *)
(* Encodings.  Times are in milliseconds (2.5 s is 2500).  A radius r is   *)
(* kept as r * r (radiusSq), so that sqrt(m**2 + m**2) is the integer      *)
(* m*m + m*m.  Python indices are kept as written (combined[0] is index    *)
(* 0).  A reference to an object is [k |-> kind, i |-> index in the heap   *)
(* sequence of that kind].                                                 *)
(***************************************************************************)
EXTENDS Integers, Sequences, FiniteSets, TLC

\* ------------------------------------------------------------------ data

\* Simulator(model) is built without a dt argument: one step is 1 ms.
DtMs == 1

\* Largest input_magnitude that ProductSpec draws for a call of Product.
MaxMagnitude == 4

\* Largest component of the vectors a connection's function is tried on.
MaxValue == 6

inputA_points_Early == << <<0, 0>>, <<1000, 10>>, <<4000, 0 - 10>> >>

\* Piecewise({0: 0, 2.5: 10, 4: -10})
inputA_points == << <<0, 0>>, <<2500, 10>>, <<4000, 0 - 10>> >>

\* Piecewise({0: 10, 1.5: 2, 3: 0, 4.5: 2})
inputB_points == << <<0, 10>>, <<1500, 2>>, <<3000, 0>>, <<4500, 2>> >>

correct_ans_points_At4 ==
    << <<0, 0>>, <<1500, 0>>, <<2500, 20>>, <<3000, 0>>, <<4000, 0 - 20>>,
       <<4500, 0 - 20>> >>

\* Piecewise({0: 0, 1.5: 0, 2.5: 20, 3: 0, 4: 0, 4.5: -20})
correct_ans_points ==
    << <<0, 0>>, <<1500, 0>>, <<2500, 20>>, <<3000, 0>>, <<4000, 0>>,
       <<4500, 0 - 20>> >>

\* Choice([[1, 1], [-1, 1], [1, -1], [-1, -1]])
Corners == "Choice([[1,1],[-1,1],[1,-1],[-1,-1]])"

\* ----------------------------------------------------------- expressions

Unbound == [k |-> "unbound", i |-> 0]

\* A name, an attribute of a name (prod.A), and either of them indexed.
Nm(n) == [name |-> n, attr |-> "", idx |-> <<>>]
At(n, a) == [name |-> n, attr |-> a, idx |-> <<>>]
Ix(e, j) == [e EXCEPT !.idx = <<j>>]
NoTarget == Nm("")

GlobalNames ==
    { "plt", "np", "nengo", "Choice", "Piecewise",
      "model", "A", "B", "combined", "prod", "inputA", "inputB",
      "correct_ans", "product", "Product",
      "inputA_probe", "inputB_probe", "A_probe", "B_probe",
      "combined_probe", "prod_probe", "sim" }

\* The names Product assigns, which are local to a call of it.
LocalNames == { "model", "product" }

AttrNames == { "A", "B", "combined", "prod" }

\* ------------------------------------------------------------- the cells

ImportCell ==
    << [op |-> "import", target |-> Nm("plt"), reads |-> {}, line |-> 24],
       [op |-> "import", target |-> Nm("np"), reads |-> {}, line |-> 25],
       [op |-> "import", target |-> Nm("nengo"), reads |-> {}, line |-> 27],
       [op |-> "import", target |-> Nm("Choice"), reads |-> {}, line |-> 28],
       [op |-> "import", target |-> Nm("Piecewise"), reads |-> {},
        line |-> 29] >>

EnsembleStmt(t, n, d, rSq, enc, rd, ln) ==
    [op |-> "ensemble", target |-> t, n_neurons |-> n, dimensions |-> d,
     radiusSq |-> rSq, encoders |-> enc, reads |-> rd, line |-> ln]

EnterModel(ln) ==
    [op |-> "enter", net |-> Nm("model"), target |-> NoTarget,
     reads |-> {"model"}, line |-> ln]

ExitModel(ln) ==
    [op |-> "exit", target |-> NoTarget, reads |-> {}, line |-> ln]

Step1Cell ==
    << [op |-> "network", target |-> Nm("model"), label |-> "Multiplication",
        reads |-> {"nengo"}, line |-> 51],
       EnterModel(52),
       EnsembleStmt(Nm("A"), 100, 1, 10 * 10, "Default", {"nengo"}, 54),
       EnsembleStmt(Nm("B"), 100, 1, 10 * 10, "Default", {"nengo"}, 55),
       EnsembleStmt(Nm("combined"), 220, 2, 15 * 15, "Default", {"nengo"}, 56),
       EnsembleStmt(Nm("prod"), 100, 1, 20 * 20, "Default", {"nengo"}, 59),
       ExitModel(59),
       [op |-> "set_encoders", obj |-> Nm("combined"), encoders |-> Corners,
        target |-> NoTarget, reads |-> {"combined", "Choice"}, line |-> 66] >>

InputNode(t, pts, ln) ==
    [op |-> "node", target |-> t, points |-> pts, has_output |-> TRUE,
     size_in |-> 0, reads |-> {"nengo", "Piecewise"}, line |-> ln]

Step2Cell ==
    << EnterModel(85),
       InputNode(Nm("inputA"), inputA_points, 87),
       InputNode(Nm("inputB"), inputB_points, 88),
       [op |-> "process", target |-> Nm("correct_ans"),
        points |-> correct_ans_points, reads |-> {"Piecewise"}, line |-> 90],
       ExitModel(90) >>

ConnStmt(pre, post, fn, syn, rd, ln) ==
    [op |-> "connection", pre |-> pre, post |-> post, function |-> fn,
     synapse |-> syn, target |-> NoTarget, reads |-> rd, line |-> ln]

Step3Cell ==
    << EnterModel(106),
       ConnStmt(Nm("inputA"), Nm("A"), "None", "Default",
                {"nengo", "inputA", "A"}, 108),
       ConnStmt(Nm("inputB"), Nm("B"), "None", "Default",
                {"nengo", "inputB", "B"}, 109),
       ConnStmt(Nm("A"), Ix(Nm("combined"), 0), "None", "Default",
                {"nengo", "A", "combined"}, 112),
       ConnStmt(Nm("B"), Ix(Nm("combined"), 1), "None", "Default",
                {"nengo", "B", "combined"}, 113),
       [op |-> "def", target |-> Nm("product"), reads |-> {}, line |-> 116],
       ConnStmt(Nm("combined"), Nm("prod"), "product", "Default",
                {"nengo", "combined", "prod", "product"}, 120),
       ExitModel(120) >>

ProbeStmt_NoSynapse(t, obj, syn, ln) ==
    [op |-> "probe", target |-> t, obj |-> obj, synapse |-> "Default",
     reads |-> {"nengo", obj.name}, line |-> ln]

ProbeStmt(t, obj, syn, ln) ==
    [op |-> "probe", target |-> t, obj |-> obj, synapse |-> syn,
     reads |-> {"nengo", obj.name}, line |-> ln]

Step4Cell ==
    << EnterModel(138),
       ProbeStmt(Nm("inputA_probe"), Nm("inputA"), "Default", 139),
       ProbeStmt(Nm("inputB_probe"), Nm("inputB"), "Default", 140),
       ProbeStmt(Nm("A_probe"), Nm("A"), "0.01", 141),
       ProbeStmt(Nm("B_probe"), Nm("B"), "0.01", 142),
       ProbeStmt(Nm("combined_probe"), Nm("combined"), "0.01", 143),
       ProbeStmt(Nm("prod_probe"), Nm("prod"), "0.01", 144),
       ExitModel(144) >>

RunCell(first) ==
    << [op |-> "simulator", target |-> Nm("sim"), net |-> Nm("model"),
        reads |-> {"nengo", "model"}, line |-> first],
       [op |-> "run", seconds |-> 5, target |-> NoTarget, reads |-> {"sim"},
        line |-> first + 2],
       [op |-> "close", target |-> NoTarget, reads |-> {"sim"},
        line |-> first + 2] >>

Step5Cell == RunCell(161)

PlotData(p, lbl, ln) ==
    [op |-> "plot", y |-> "data", src |-> p, label |-> lbl,
     target |-> NoTarget, reads |-> {"plt", "sim", p}, line |-> ln]

PlotCell(first) ==
    << [op |-> "figure", target |-> NoTarget, reads |-> {"plt"},
        line |-> first],
       PlotData("A_probe", "Decoded A", first + 1),
       PlotData("B_probe", "Decoded B", first + 2),
       PlotData("prod_probe", "Decoded product", first + 3),
       [op |-> "plot", y |-> "process", src |-> "correct_ans",
        label |-> "Actual product", target |-> NoTarget,
        reads |-> {"plt", "sim", "correct_ans"}, line |-> first + 4],
       [op |-> "pltcall", target |-> NoTarget, reads |-> {"plt"},
        line |-> first + 7],
       [op |-> "pltcall", target |-> NoTarget, reads |-> {"plt"},
        line |-> first + 8] >>

Step6Cell == PlotCell(183)

\* The body of Product(neuron_per_dimension, input_magnitude).
ProductBody(neuron_per_dimension, input_magnitude) ==
    << [op |-> "network", target |-> Nm("model"), label |-> "Product",
        reads |-> {"nengo"}, line |-> 231],
       EnterModel(232),
       [op |-> "node", target |-> At("model", "A"), points |-> <<>>,
        has_output |-> FALSE, size_in |-> 1, reads |-> {"nengo", "model"},
        line |-> 234],
       [op |-> "node", target |-> At("model", "B"), points |-> <<>>,
        has_output |-> FALSE, size_in |-> 1, reads |-> {"nengo", "model"},
        line |-> 235],
       EnsembleStmt(At("model", "combined"), neuron_per_dimension * 2, 2,
                    input_magnitude * input_magnitude
                      + input_magnitude * input_magnitude,
                    Corners, {"nengo", "np", "Choice", "model"}, 237),
       EnsembleStmt(At("model", "prod"), neuron_per_dimension, 1,
                    (input_magnitude * 2) * (input_magnitude * 2),
                    "Default", {"nengo", "model"}, 244),
       ConnStmt(At("model", "A"), Ix(At("model", "combined"), 0), "None",
                "None", {"nengo", "model"}, 249),
       ConnStmt(At("model", "B"), Ix(At("model", "combined"), 1), "None",
                "None", {"nengo", "model"}, 250),
       [op |-> "def", target |-> Nm("product"), reads |-> {}, line |-> 252],
       ConnStmt(At("model", "combined"), At("model", "prod"), "product",
                "Default", {"nengo", "model", "product"}, 255),
       ExitModel(255),
       [op |-> "return", value |-> Nm("model"), target |-> NoTarget,
        reads |-> {"model"}, line |-> 256] >>

\* def Product(neuron_per_dimension, input_magnitude): ...
BonusDef ==
    << [op |-> "def", target |-> Nm("Product"), reads |-> {}, line |-> 229] >>

BonusNetwork_Reused == <<>>

\* model = nengo.Network(label="Multiplication")
BonusNetwork ==
    << [op |-> "network", target |-> Nm("model"), label |-> "Multiplication",
        reads |-> {"nengo"}, line |-> 260] >>

BonusBuild ==
    << EnterModel(261),
       InputNode(Nm("inputA"), inputA_points, 262),
       InputNode(Nm("inputB"), inputB_points, 263),
       EnsembleStmt(Nm("A"), 100, 1, 10 * 10, "Default", {"nengo"}, 264),
       EnsembleStmt(Nm("B"), 100, 1, 10 * 10, "Default", {"nengo"}, 265),
       [op |-> "call", target |-> Nm("prod"), neuron_per_dimension |-> 100,
        input_magnitude |-> 10, reads |-> {"Product"}, line |-> 266],
       ConnStmt(Nm("inputA"), Nm("A"), "None", "Default",
                {"nengo", "inputA", "A"}, 267),
       ConnStmt(Nm("inputB"), Nm("B"), "None", "Default",
                {"nengo", "inputB", "B"}, 268),
       ConnStmt(Nm("A"), At("prod", "A"), "None", "Default",
                {"nengo", "A", "prod"}, 269),
       ConnStmt(Nm("B"), At("prod", "B"), "None", "Default",
                {"nengo", "B", "prod"}, 270) >>

BonusProbes_StaleA ==
    << ProbeStmt(Nm("inputA_probe"), Nm("inputA"), "Default", 272),
       ProbeStmt(Nm("inputB_probe"), Nm("inputB"), "Default", 273),
       ProbeStmt(Nm("B_probe"), Nm("B"), "0.01", 275),
       ProbeStmt(Nm("combined_probe"), At("prod", "combined"), "0.01", 276),
       ProbeStmt(Nm("prod_probe"), At("prod", "prod"), "0.01", 277),
       ExitModel(277) >>

BonusProbes ==
    << ProbeStmt(Nm("inputA_probe"), Nm("inputA"), "Default", 272),
       ProbeStmt(Nm("inputB_probe"), Nm("inputB"), "Default", 273),
       ProbeStmt(Nm("A_probe"), Nm("A"), "0.01", 274),
       ProbeStmt(Nm("B_probe"), Nm("B"), "0.01", 275),
       ProbeStmt(Nm("combined_probe"), At("prod", "combined"), "0.01", 276),
       ProbeStmt(Nm("prod_probe"), At("prod", "prod"), "0.01", 277),
       ExitModel(277) >>

BonusCell ==
    BonusDef \o BonusNetwork \o BonusBuild \o BonusProbes
      \o RunCell(280) \o PlotCell(285)

\* The code cells in document order.
Program ==
    ImportCell \o Step1Cell \o Step2Cell \o Step3Cell \o Step4Cell
      \o Step5Cell \o Step6Cell \o BonusCell

\* ----------------------------------------------------------------- state

VARIABLES
    pc,          \* index in Program of the next top-level statement
    frame,       \* <<>>, or the one active call of Product
    env,         \* the notebook's global names
    ctx,         \* the stack of networks entered by "with"
    networks, ensembles, nodes, processes, connections, probes, sims,
    steps_left,  \* steps sim.run still has to take; -1 when not running
    figures,     \* per figure, the series given to plt.plot
    dataReads,   \* one entry per evaluation of sim.data[p]
    error,       \* "none", or the exception that stopped the notebook
    calls,       \* the calls of Product that returned: arguments, result
    drive        \* values presented to a Product's passthrough nodes

vars ==
    << pc, frame, env, ctx, networks, ensembles, nodes, processes,
       connections, probes, sims, steps_left, figures, dataReads, error,
       calls, drive >>

heap == << networks, ensembles, nodes, processes, connections, probes >>

InCall == frame # <<>>

Cur ==
    IF InCall
    THEN ProductBody(frame[1].neuron_per_dimension,
                     frame[1].input_magnitude)[frame[1].pc]
    ELSE Program[pc]

Running ==
    /\ error = "none"
    /\ IF InCall THEN TRUE ELSE pc <= Len(Program)

IsLocal(n) == InCall /\ n \in LocalNames

\* Python's name lookup: the function's own names, then the globals.
Lookup(n) == IF IsLocal(n) THEN frame[1].locals[n] ELSE env[n]

Eval(e) ==
    IF e.attr = "" THEN Lookup(e.name)
    ELSE networks[Lookup(e.name).i].attrs[e.attr]

CtxTop == IF ctx = <<>> THEN 0 ELSE ctx[Len(ctx)]

\* Whether network m is n or lies below it.
RECURSIVE Within(_, _)
Within(m, n) ==
    IF m = 0 THEN FALSE
    ELSE IF m = n THEN TRUE
    ELSE Within(networks[m].parent, n)

\* Network.all_probes: the probes of a network and of its subnetworks.
AllProbes(n) == { p \in DOMAIN probes : Within(probes[p].net, n) }

AllEnsembles(n) == { e \in DOMAIN ensembles : Within(ensembles[e].net, n) }

AllNodes(n) == { i \in DOMAIN nodes : Within(nodes[i].net, n) }

AllConnections(n) ==
    { c \in DOMAIN connections : Within(connections[c].net, n) }

\* A Piecewise process at time t: the value of its latest breakpoint <= t,
\* and zero before its first breakpoint.
PiecewiseAt(points, t) ==
    LET before == { j \in DOMAIN points : points[j][1] <= t }
    IN  IF before = {} THEN 0
        ELSE LET last == CHOOSE j \in before :
                            \A k \in before : points[k][1] <= points[j][1]
             IN  points[last][2]

\* Simulator.run(seconds): the number of steps of dt.
RunSteps(seconds) == (seconds * 1000) \div DtMs

\* Simulator.time after n steps, in ms.
SimTime(s) == sims[s].n_steps * DtMs

\* Process.run(t, dt): the number of samples it returns.
ProcessRunSteps(t, dt) == t \div dt

\* Probe(target) without a synapse argument records the target unfiltered.
ProbeSynapse(arg) == IF arg = "Default" THEN "None" ELSE arg

product_Sum(x) == x[1] + x[2]

\* def product(x): return x[0] * x[1]
product(x) == x[1] * x[2]

ReferenceSamples_FromZero(s) == ProcessRunSteps(SimTime(s) + DtMs, DtMs)

\* correct_ans.run(sim.time, dt=sim.dt): the samples of the reference.
ReferenceSamples(s) == ProcessRunSteps(SimTime(s), DtMs)

\* The function of a connection applied to the value of its pre object.
ApplyFunction(fn, x) == IF fn = "product" THEN <<product(x)>> ELSE x

\* The exception the statement raises, if any: a name read before it is
\* bound, or sim.data indexed with a probe the simulator did not build.
Raises(stmt) ==
    IF \E n \in stmt.reads : Lookup(n) = Unbound THEN "NameError"
    ELSE IF /\ stmt.op = "plot"
            /\ stmt.y = "data"
            /\ Lookup(stmt.src).i \notin DOMAIN sims[Lookup("sim").i].data
         THEN "KeyError"
    ELSE "none"

\* The statement's effect, or the exception it raises.
Try(effect) ==
    IF Raises(Cur) # "none"
    THEN /\ error' = Raises(Cur)
         /\ UNCHANGED << pc, frame, env, ctx, heap, sims, steps_left,
                         figures, dataReads, calls, drive >>
    ELSE /\ error' = error
         /\ effect

\* Bind the statement's target (a name, or an attribute of a network) to
\* ref, given the networks as the statement leaves them, and move on.
BindAndAdvance(target, ref, nets) ==
    /\ env' = IF target.name # "" /\ target.attr = ""
                 /\ ~IsLocal(target.name)
              THEN [env EXCEPT ![target.name] = ref]
              ELSE env
    /\ frame' = IF InCall
                THEN << [frame[1] EXCEPT
                           !.pc = @ + 1,
                           !.locals = IF target.attr = ""
                                         /\ target.name \in LocalNames
                                      THEN [@ EXCEPT ![target.name] = ref]
                                      ELSE @] >>
                ELSE frame
    /\ pc' = IF InCall THEN pc ELSE pc + 1
    /\ networks' = IF target.attr # ""
                   THEN [nets EXCEPT
                           ![Lookup(target.name).i].attrs[target.attr] = ref]
                   ELSE nets

Advance == BindAndAdvance(NoTarget, Unbound, networks)

\* The name an object is made under: the variable or attribute assigned.
TargetName(t) == IF t.attr = "" THEN t.name ELSE t.attr

\* ------------------------------------------------------------------ Init

EmptyEnv == [n \in GlobalNames |-> Unbound]

NoDrive == [net |-> 0, A |-> 0, B |-> 0]

Init ==
    /\ pc = 1
    /\ frame = <<>>
    /\ env = EmptyEnv
    /\ ctx = <<>>
    /\ networks = <<>>
    /\ ensembles = <<>>
    /\ nodes = <<>>
    /\ processes = <<>>
    /\ connections = <<>>
    /\ probes = <<>>
    /\ sims = <<>>
    /\ steps_left = 0 - 1
    /\ figures = <<>>
    /\ dataReads = <<>>
    /\ error = "none"
    /\ calls = <<>>
    /\ drive = NoDrive

\* --------------------------------------------------------------- actions

\* import ..., from ... import ...
ExecImport ==
    /\ Running /\ Cur.op = "import"
    /\ Try(/\ BindAndAdvance(Cur.target, [k |-> "module", i |-> 0], networks)
           /\ UNCHANGED << ctx, ensembles, nodes, processes, connections,
                           probes, sims, steps_left, figures, dataReads,
                           calls, drive >>)

\* def product(x): ..., def Product(...): ...
ExecDef ==
    /\ Running /\ Cur.op = "def"
    /\ Try(/\ BindAndAdvance(Cur.target, [k |-> "function", i |-> 0],
                             networks)
           /\ UNCHANGED << ctx, ensembles, nodes, processes, connections,
                           probes, sims, steps_left, figures, dataReads,
                           calls, drive >>)

\* model = nengo.Network(label=...): a subnetwork of the network entered.
ExecNetwork ==
    /\ Running /\ Cur.op = "network"
    /\ Try(/\ BindAndAdvance(
                Cur.target, [k |-> "network", i |-> Len(networks) + 1],
                Append(networks,
                       [label |-> Cur.label, parent |-> CtxTop,
                        attrs |-> [a \in AttrNames |-> Unbound]]))
           /\ UNCHANGED << ctx, ensembles, nodes, processes, connections,
                           probes, sims, steps_left, figures, dataReads,
                           calls, drive >>)

\* with model:
ExecEnter ==
    /\ Running /\ Cur.op = "enter"
    /\ Try(/\ ctx' = Append(ctx, Eval(Cur.net).i)
           /\ Advance
           /\ UNCHANGED << ensembles, nodes, processes, connections, probes,
                           sims, steps_left, figures, dataReads, calls, drive >>)

\* the end of a "with model:" block
ExecExit ==
    /\ Running /\ Cur.op = "exit"
    /\ Try(/\ ctx' = SubSeq(ctx, 1, Len(ctx) - 1)
           /\ Advance
           /\ UNCHANGED << ensembles, nodes, processes, connections, probes,
                           sims, steps_left, figures, dataReads, calls, drive >>)

\* nengo.Ensemble(n_neurons, dimensions=..., radius=..., encoders=...)
ExecEnsemble ==
    /\ Running /\ Cur.op = "ensemble"
    /\ Try(/\ ensembles' =
                Append(ensembles,
                       [net |-> CtxTop, name |-> TargetName(Cur.target),
                        n_neurons |-> Cur.n_neurons,
                        dimensions |-> Cur.dimensions,
                        radiusSq |-> Cur.radiusSq,
                        encoders |-> Cur.encoders])
           /\ BindAndAdvance(Cur.target,
                             [k |-> "ensemble", i |-> Len(ensembles) + 1],
                             networks)
           /\ UNCHANGED << ctx, nodes, processes, connections, probes, sims,
                           steps_left, figures, dataReads, calls, drive >>)

\* combined.encoders = Choice(...)
ExecSetEncoders ==
    /\ Running /\ Cur.op = "set_encoders"
    /\ Try(/\ ensembles' =
                [ensembles EXCEPT ![Eval(Cur.obj).i].encoders = Cur.encoders]
           /\ Advance
           /\ UNCHANGED << ctx, nodes, processes, connections, probes, sims,
                           steps_left, figures, dataReads, calls, drive >>)

\* nengo.Node(Piecewise({...})), nengo.Node(output=None, size_in=1)
ExecNode ==
    /\ Running /\ Cur.op = "node"
    /\ Try(/\ processes' = IF Cur.has_output
                           THEN Append(processes, [points |-> Cur.points])
                           ELSE processes
           /\ nodes' =
                Append(nodes,
                       [net |-> CtxTop, name |-> TargetName(Cur.target),
                        output |-> IF Cur.has_output
                                   THEN Len(processes) + 1 ELSE 0,
                        size_in |-> Cur.size_in])
           /\ BindAndAdvance(Cur.target,
                             [k |-> "node", i |-> Len(nodes) + 1], networks)
           /\ UNCHANGED << ctx, ensembles, connections, probes, sims,
                           steps_left, figures, dataReads, calls, drive >>)

\* correct_ans = Piecewise({...})
ExecProcess ==
    /\ Running /\ Cur.op = "process"
    /\ Try(/\ processes' = Append(processes, [points |-> Cur.points])
           /\ BindAndAdvance(Cur.target,
                             [k |-> "process", i |-> Len(processes) + 1],
                             networks)
           /\ UNCHANGED << ctx, ensembles, nodes, connections, probes, sims,
                           steps_left, figures, dataReads, calls, drive >>)

\* nengo.Connection(pre, post, function=..., synapse=...)
ExecConnection ==
    /\ Running /\ Cur.op = "connection"
    /\ Try(/\ connections' =
                Append(connections,
                       [net |-> CtxTop,
                        pre |-> Eval(Cur.pre), pre_idx |-> Cur.pre.idx,
                        post |-> Eval(Cur.post), post_idx |-> Cur.post.idx,
                        function |-> Cur.function,
                        synapse |-> Cur.synapse])
           /\ Advance
           /\ UNCHANGED << ctx, ensembles, nodes, processes, probes, sims,
                           steps_left, figures, dataReads, calls, drive >>)

\* nengo.Probe(target, synapse=...)
ExecProbe ==
    /\ Running /\ Cur.op = "probe"
    /\ Try(/\ probes' =
                Append(probes,
                       [net |-> CtxTop, target |-> Eval(Cur.obj),
                        synapse |-> ProbeSynapse(Cur.synapse)])
           /\ BindAndAdvance(Cur.target,
                             [k |-> "probe", i |-> Len(probes) + 1],
                             networks)
           /\ UNCHANGED << ctx, ensembles, nodes, processes, connections,
                           sims, steps_left, figures, dataReads, calls, drive >>)

\* prod = Product(100, input_magnitude=10): enter the function.
ExecCall ==
    /\ Running /\ Cur.op = "call" /\ ~InCall
    /\ Try(/\ frame' =
                << [pc |-> 1,
                    neuron_per_dimension |-> Cur.neuron_per_dimension,
                    input_magnitude |-> Cur.input_magnitude,
                    locals |-> [n \in LocalNames |-> Unbound],
                    target |-> Cur.target] >>
           /\ UNCHANGED << pc, env, ctx, heap, sims, steps_left, figures,
                           dataReads, calls, drive >>)

\* return model: bind the caller's target and resume after the call.
ExecReturn ==
    /\ Running /\ Cur.op = "return" /\ InCall
    /\ Try(/\ env' = [env EXCEPT ![frame[1].target.name] = Eval(Cur.value)]
           /\ frame' = <<>>
           /\ pc' = pc + 1
           /\ calls' =
                Append(calls,
                       [neuron_per_dimension |->
                            frame[1].neuron_per_dimension,
                        input_magnitude |-> frame[1].input_magnitude,
                        net |-> Eval(Cur.value).i])
           /\ UNCHANGED << ctx, heap, sims, steps_left, figures, dataReads,
                           drive >>)

\* with nengo.Simulator(model) as sim: build the simulator of the network,
\* with a data series for each of the network's probes.
ExecSimulator ==
    /\ Running /\ Cur.op = "simulator"
    /\ Try(/\ sims' =
                Append(sims,
                       [net |-> Eval(Cur.net).i, n_steps |-> 0,
                        closed |-> FALSE,
                        data |-> [p \in AllProbes(Eval(Cur.net).i) |-> 0],
                        nodeOut |-> [n \in AllNodes(Eval(Cur.net).i) |-> 0]])
           /\ BindAndAdvance(Cur.target,
                             [k |-> "simulator", i |-> Len(sims) + 1],
                             networks)
           /\ UNCHANGED << ctx, ensembles, nodes, processes, connections,
                           probes, steps_left, figures, dataReads, calls,
                           drive >>)

\* sim.run(5): the number of steps to take.
ExecRun ==
    /\ Running /\ Cur.op = "run" /\ steps_left < 0
    /\ Try(/\ steps_left' = RunSteps(Cur.seconds)
           /\ UNCHANGED << pc, frame, env, ctx, heap, sims, figures,
                           dataReads, calls, drive >>)

\* One step of the simulator: time advances by dt, every node with a
\* process puts out the process's value at the new time, and every probe
\* records one sample.
SimStep ==
    /\ Running /\ Cur.op = "run" /\ steps_left > 0
    /\ LET s == Lookup("sim").i
           t == (sims[s].n_steps + 1) * DtMs
       IN  sims' =
             [sims EXCEPT
                ![s].n_steps = @ + 1,
                ![s].data = [p \in DOMAIN @ |-> @[p] + 1],
                ![s].nodeOut =
                    [n \in DOMAIN @ |->
                       IF nodes[n].output # 0
                       THEN PiecewiseAt(processes[nodes[n].output].points, t)
                       ELSE 0]]
    /\ steps_left' = steps_left - 1
    /\ UNCHANGED << pc, frame, env, ctx, heap, figures, dataReads, error,
                    calls, drive >>

\* sim.run returns.
RunDone ==
    /\ Running /\ Cur.op = "run" /\ steps_left = 0
    /\ steps_left' = 0 - 1
    /\ Advance
    /\ UNCHANGED << ctx, ensembles, nodes, processes, connections, probes,
                    sims, figures, dataReads, error, calls, drive >>

\* the end of the "with nengo.Simulator(model) as sim:" block
ExecClose ==
    /\ Running /\ Cur.op = "close"
    /\ Try(/\ sims' = [sims EXCEPT ![Lookup("sim").i].closed = TRUE]
           /\ Advance
           /\ UNCHANGED << ctx, ensembles, nodes, processes, connections,
                           probes, steps_left, figures, dataReads, calls,
                           drive >>)

\* plt.figure()
ExecFigure ==
    /\ Running /\ Cur.op = "figure"
    /\ Try(/\ figures' = Append(figures, <<>>)
           /\ Advance
           /\ UNCHANGED << ctx, ensembles, nodes, processes, connections,
                           probes, sims, steps_left, dataReads, calls,
                           drive >>)

AddSeries(series) ==
    IF figures = <<>> THEN << <<series>> >>
    ELSE [figures EXCEPT ![Len(figures)] = Append(@, series)]

\* plt.plot(sim.trange(), sim.data[p], label=...) and
\* plt.plot(sim.trange(), correct_ans.run(sim.time, dt=sim.dt), ...)
ExecPlot ==
    /\ Running /\ Cur.op = "plot"
    /\ Try(LET s == Lookup("sim").i
               src == Lookup(Cur.src)
           IN  /\ figures' =
                    AddSeries(
                      [x_len |-> sims[s].n_steps,
                       y_len |-> IF Cur.y = "data"
                                 THEN sims[s].data[src.i]
                                 ELSE ReferenceSamples(s),
                       src |-> src, label |-> Cur.label])
               /\ dataReads' =
                    IF Cur.y = "data"
                    THEN Append(dataReads,
                                [sim |-> s, probe |-> src.i,
                                 n_steps |-> sims[s].n_steps,
                                 closed |-> sims[s].closed,
                                 running |-> steps_left >= 0])
                    ELSE dataReads
               /\ Advance
               /\ UNCHANGED << ctx, ensembles, nodes, processes, connections,
                               probes, sims, steps_left, calls, drive >>)

\* plt.legend(loc="best"), plt.ylim(-25, 25)
ExecPltCall ==
    /\ Running /\ Cur.op = "pltcall"
    /\ Try(/\ Advance
           /\ UNCHANGED << ctx, ensembles, nodes, processes, connections,
                           probes, sims, steps_left, figures, dataReads,
                           calls, drive >>)

\* Values a and b, within the input magnitude, presented to the passthrough
\* nodes A and B of a network that Product returned.
Drive ==
    /\ error = "none" /\ ~InCall
    /\ \E c \in DOMAIN calls :
         \E a, b \in (0 - calls[c].input_magnitude)..calls[c].input_magnitude :
            drive' = [net |-> calls[c].net, A |-> a, B |-> b]
    /\ UNCHANGED << pc, frame, env, ctx, heap, sims, steps_left, figures,
                    dataReads, error, calls >>

\* ------------------------------------------------------- specifications

Next ==
    \/ ExecImport \/ ExecDef \/ ExecNetwork \/ ExecEnter \/ ExecExit
    \/ ExecEnsemble \/ ExecSetEncoders \/ ExecNode \/ ExecProcess
    \/ ExecConnection \/ ExecProbe \/ ExecCall \/ ExecReturn
    \/ ExecSimulator \/ ExecRun \/ SimStep \/ RunDone \/ ExecClose
    \/ ExecFigure \/ ExecPlot \/ ExecPltCall

\* The notebook, run once from a fresh kernel.
Spec == Init /\ [][Next]_vars

\* A call of Product on its own, from a kernel that has run the imports and
\* the definition of Product, with arguments drawn from small sets.
ProductInit ==
    /\ pc = Len(Program) + 1
    /\ \E n \in {50, 100} : \E m \in 1..MaxMagnitude :
         frame = << [pc |-> 1, neuron_per_dimension |-> n,
                     input_magnitude |-> m,
                     locals |-> [x \in LocalNames |-> Unbound],
                     target |-> Nm("prod")] >>
    /\ env = [n \in GlobalNames |->
                IF n \in {"plt", "np", "nengo", "Choice", "Piecewise"}
                THEN [k |-> "module", i |-> 0]
                ELSE IF n = "Product" THEN [k |-> "function", i |-> 0]
                ELSE Unbound]
    /\ ctx = <<>>
    /\ networks = <<>>
    /\ ensembles = <<>>
    /\ nodes = <<>>
    /\ processes = <<>>
    /\ connections = <<>>
    /\ probes = <<>>
    /\ sims = <<>>
    /\ steps_left = 0 - 1
    /\ figures = <<>>
    /\ dataReads = <<>>
    /\ error = "none"
    /\ calls = <<>>
    /\ drive = NoDrive

ProductNext ==
    \/ ExecNetwork \/ ExecEnter \/ ExecNode \/ ExecEnsemble
    \/ ExecConnection \/ ExecDef \/ ExecExit \/ ExecReturn \/ Drive

ProductSpec == ProductInit /\ [][ProductNext]_vars

\* --------------------------------------------------------- ideal values

\* The number of dimensions an object puts out.
Dimensions(ref) ==
    IF ref.k = "ensemble" THEN ensembles[ref.i].dimensions
    ELSE IF nodes[ref.i].size_in > 0 THEN nodes[ref.i].size_in
    ELSE 1

\* What is presented from outside to a passthrough node.
External(ref) ==
    IF ref.k = "node" /\ nodes[ref.i].output = 0
       /\ nodes[ref.i].net = drive.net
    THEN IF nodes[ref.i].name = "A" THEN drive.A
         ELSE IF nodes[ref.i].name = "B" THEN drive.B
         ELSE 0
    ELSE 0

\* The value the connections of the model ask dimension dim of an object to
\* carry, in simulator s (0: no simulator): a node with a process carries
\* the process's output, anything else the sum of what its incoming
\* connections deliver, each applying its function to its pre object and
\* writing to the dimensions of the post object it is sliced to.
RECURSIVE Ideal(_, _, _, _)
RECURSIVE SumIn(_, _, _, _, _)
RECURSIVE Delivered(_, _, _, _, _)
Ideal(s, ref, dim, fuel) ==
    IF fuel = 0 THEN 0
    ELSE IF ref.k = "node" /\ nodes[ref.i].output # 0
    THEN IF s # 0 /\ ref.i \in DOMAIN sims[s].nodeOut
         THEN sims[s].nodeOut[ref.i] ELSE 0
    ELSE External(ref) + SumIn(s, ref, dim, Len(connections), fuel)

SumIn(s, ref, dim, k, fuel) ==
    IF k = 0 THEN 0
    ELSE Delivered(s, connections[k], ref, dim, fuel)
           + SumIn(s, ref, dim, k - 1, fuel)

Delivered(s, c, ref, dim, fuel) ==
    IF c.post # ref THEN 0
    ELSE LET whole == [d \in 1..Dimensions(c.pre) |->
                          Ideal(s, c.pre, d - 1, fuel - 1)]
             x == IF c.pre_idx = <<>> THEN whole
                  ELSE << whole[c.pre_idx[1] + 1] >>
             y == ApplyFunction(c.function, x)
         IN  IF c.post_idx = <<>>
             THEN IF dim + 1 \in DOMAIN y THEN y[dim + 1] ELSE 0
             ELSE IF c.post_idx[1] = dim THEN y[1] ELSE 0

IdealOf(s, ref, dim) == Ideal(s, ref, dim, Len(connections) + 1)

RECURSIVE SumSq(_, _, _)
\* The squared length of the ideal vector of an object.
SumSq(s, ref, d) ==
    IF d = 0 THEN 0
    ELSE IdealOf(s, ref, d - 1) * IdealOf(s, ref, d - 1)
           + SumSq(s, ref, d - 1)

\* The object of a network made under the given name.
EnsembleNamed(n, nm) ==
    CHOOSE e \in AllEnsembles(n) : ensembles[e].name = nm

InputNodes(n) == { i \in AllNodes(n) : nodes[i].output # 0 }

InputNamed(n, nm) == CHOOSE i \in InputNodes(n) : nodes[i].name = nm

\* The top-level networks, and those a simulator was built from.
Models == { n \in DOMAIN networks : networks[n].parent = 0 }

Built(n) == \E s \in DOMAIN sims : sims[s].net = n

Done == ~InCall /\ pc > Len(Program)

\* The name an object was made under.
NameOf(ref) ==
    IF ref.k = "ensemble" THEN ensembles[ref.i].name ELSE nodes[ref.i].name

IsPassthrough(ref) == ref.k = "node" /\ nodes[ref.i].output = 0

\* The output of an input node of simulator s's model at the simulator's
\* time: what the last step put out, or the process at time 0 before it.
InputAt(s, nm) ==
    LET n == InputNamed(sims[s].net, nm)
    IN  IF sims[s].n_steps = 0
        THEN PiecewiseAt(processes[nodes[n].output].points, 0)
        ELSE sims[s].nodeOut[n]

\* The reference signal at the time of simulator s.
ReferenceAt(s) ==
    PiecewiseAt(processes[env["correct_ans"].i].points, SimTime(s))

\* What a model's ensembles are: name, size, dimensions, radius, encoders.
EnsembleSig(n) ==
    { [name |-> ensembles[e].name, n_neurons |-> ensembles[e].n_neurons,
       dimensions |-> ensembles[e].dimensions,
       radiusSq |-> ensembles[e].radiusSq,
       encoders |-> ensembles[e].encoders] : e \in AllEnsembles(n) }

\* The object a signal comes from, a passthrough node standing for the
\* object connected to it.
Source(ref) ==
    IF IsPassthrough(ref)
       /\ \E c \in DOMAIN connections : connections[c].post = ref
    THEN connections[CHOOSE c \in DOMAIN connections :
                         connections[c].post = ref].pre
    ELSE ref

\* The signal path of a model, passthrough nodes left out.
PathSig(n) ==
    { [pre |-> NameOf(Source(connections[c].pre)),
       post |-> NameOf(connections[c].post),
       post_idx |-> connections[c].post_idx,
       function |-> connections[c].function] :
        c \in { d \in AllConnections(n) :
                  ~IsPassthrough(connections[d].post) } }

ProbeNames ==
    { "inputA_probe", "inputB_probe", "A_probe", "B_probe",
      "combined_probe", "prod_probe" }

\* ---------------------------------------------------------------- claims

\* C1: at every time t of the simulated interval, 0 <= t <= 5 s, the
\* reference signal correct_ans(t) equals inputA(t) * inputB(t), each
\* Piecewise signal taking the value of its latest breakpoint <= t; so the
\* reference is 0 whenever one of the inputs is 0.
C1_ReferenceIsProduct ==
    \A s \in DOMAIN sims :
        LET a == InputAt(s, "inputA")
            b == InputAt(s, "inputB")
        IN  /\ ReferenceAt(s) = a * b
            /\ (a = 0 \/ b = 0) => ReferenceAt(s) = 0

C1_Witness ==
    /\ Len(sims) = 2
    /\ SimTime(2) = 4700
    /\ InputAt(2, "inputA") = 0 - 10
    /\ InputAt(2, "inputB") = 2
    /\ ReferenceAt(2) = 0 - 20

\* C2: the model the bonus cell builds with Product(100, input_magnitude=10)
\* replicates the model of Steps 1-4: the same ensembles A, B, combined and
\* prod with the same neuron counts, dimensions, radii and encoders, and the
\* same signal path.
C2_BonusReplicates ==
    Len(sims) = 2 =>
        /\ EnsembleSig(sims[2].net) = EnsembleSig(sims[1].net)
        /\ PathSig(sims[2].net) = PathSig(sims[1].net)

\* C3: the plot of Step 6, and the plot of the bonus cell, render the input
\* signals and the decoded ensemble values: the series of every probe of the
\* simulated model (inputA, inputB, A, B, combined, prod) is among the
\* series given to plt.plot.
C3_PlotsInputsAndEnsembles ==
    (Running /\ ~InCall /\ Cur.op = "pltcall") =>
        \A p \in DOMAIN sims[env["sim"].i].data :
            \E k \in DOMAIN figures[Len(figures)] :
                figures[Len(figures)][k].src = [k |-> "probe", i |-> p]

\* C4: sim.run(5) ends after exactly 5/dt steps, and once the simulator's
\* context is exited the time vector, every probe's series and the reference
\* series correct_ans.run(sim.time, dt=sim.dt) hold the same number of
\* samples, one per step; so for both runs, and for every plotted series.
C4_SampleCounts ==
    /\ \A s \in DOMAIN sims :
          sims[s].closed =>
            /\ sims[s].n_steps * DtMs = 5 * 1000
            /\ \A p \in DOMAIN sims[s].data :
                  sims[s].data[p] = sims[s].n_steps
            /\ ReferenceSamples(s) = sims[s].n_steps
    /\ \A f \in DOMAIN figures :
          \A k \in DOMAIN figures[f] :
            /\ figures[f][k].y_len = figures[f][k].x_len
            /\ figures[f][k].x_len * DtMs = 5 * 1000

C4_Witness ==
    /\ Done
    /\ Len(sims) = 2
    /\ sims[1].closed /\ sims[2].closed
    /\ Len(figures) = 2
    /\ Len(figures[2]) = 4
    /\ figures[2][4].src.k = "process"

\* C5: from the end of Step 1 on, the first model "Multiplication" holds
\* exactly four ensembles, A and B (1-dimensional, radius 10), combined
\* (2-dimensional, radius 15) and prod (1-dimensional, radius 20), and no
\* later step adds or removes one or changes its dimensions or radius.
C5_FourEnsembles ==
    pc > Len(ImportCell) + Len(Step1Cell) =>
        /\ networks[1].label = "Multiplication"
        /\ Cardinality(AllEnsembles(1)) = 4
        /\ { [name |-> ensembles[e].name,
              dimensions |-> ensembles[e].dimensions,
              radiusSq |-> ensembles[e].radiusSq] : e \in AllEnsembles(1) }
             = { [name |-> "A", dimensions |-> 1, radiusSq |-> 10 * 10],
                 [name |-> "B", dimensions |-> 1, radiusSq |-> 10 * 10],
                 [name |-> "combined", dimensions |-> 2,
                  radiusSq |-> 15 * 15],
                 [name |-> "prod", dimensions |-> 1, radiusSq |-> 20 * 20] }

C5_Witness ==
    /\ Done
    /\ Cardinality(AllEnsembles(1)) = 4
    /\ Len(ensembles) = 8
    /\ Len(probes) = 12

\* C6: in each of the two models exactly one connection carries a function,
\* combined -> prod, and the function maps every 2-vector x to x[0] * x[1];
\* every other connection is an identity connection, and those into
\* combined route A only to dimension 0 and B only to dimension 1.
C6_OneFunctionConnection ==
    \A n \in Models :
        Built(n) =>
            LET cs == AllConnections(n)
                fs == { c \in cs : connections[c].function # "None" }
                comb == [k |-> "ensemble", i |-> EnsembleNamed(n, "combined")]
                prd == [k |-> "ensemble", i |-> EnsembleNamed(n, "prod")]
                routes == { [pre |-> NameOf(connections[c].pre),
                             post |-> NameOf(connections[c].post),
                             post_idx |-> connections[c].post_idx] :
                              c \in cs \ fs }
                direct == { [pre |-> "inputA", post |-> "A",
                             post_idx |-> <<>>],
                            [pre |-> "inputB", post |-> "B",
                             post_idx |-> <<>>],
                            [pre |-> "A", post |-> "combined",
                             post_idx |-> <<0>>],
                            [pre |-> "B", post |-> "combined",
                             post_idx |-> <<1>>] }
                through == { [pre |-> "A", post |-> "A", post_idx |-> <<>>],
                             [pre |-> "B", post |-> "B", post_idx |-> <<>>] }
            IN  /\ Cardinality(fs) = 1
                /\ \A c \in fs :
                      /\ connections[c].pre = comb
                      /\ connections[c].post = prd
                      /\ connections[c].pre_idx = <<>>
                      /\ connections[c].post_idx = <<>>
                      /\ \A x0, x1 \in (0 - MaxValue)..MaxValue :
                            ApplyFunction(connections[c].function,
                                          <<x0, x1>>) = <<x0 * x1>>
                /\ \A c \in cs \ fs :
                      /\ connections[c].pre_idx = <<>>
                      /\ \A x0 \in (0 - MaxValue)..MaxValue :
                            ApplyFunction(connections[c].function, <<x0>>)
                              = <<x0>>
                /\ direct \subseteq routes
                /\ routes \subseteq direct \cup through

C6_Witness ==
    /\ Len(sims) = 2
    /\ Cardinality(AllConnections(sims[1].net)) = 5
    /\ Cardinality(AllConnections(sims[2].net)) = 7
    /\ \E c \in AllConnections(sims[2].net) :
          /\ connections[c].function = "product"
          /\ ApplyFunction(connections[c].function, <<3, 0 - 2>>) = <<0 - 6>>

\* C7: when a simulator is built, every ensemble and every input node of
\* its model has exactly one probe; the probes on input nodes are unfiltered
\* and those on ensembles have a 0.01 s synapse.  So for both models.
C7_ProbesAtBuild ==
    \A s \in DOMAIN sims :
        LET n == sims[s].net
            on(ref) == { p \in DOMAIN sims[s].data : probes[p].target = ref }
        IN  /\ \A e \in AllEnsembles(n) :
                  /\ Cardinality(on([k |-> "ensemble", i |-> e])) = 1
                  /\ \A p \in on([k |-> "ensemble", i |-> e]) :
                        probes[p].synapse = "0.01"
            /\ \A i \in InputNodes(n) :
                  /\ Cardinality(on([k |-> "node", i |-> i])) = 1
                  /\ \A p \in on([k |-> "node", i |-> i]) :
                        probes[p].synapse = "None"
            /\ Cardinality(DOMAIN sims[s].data) = 6
            /\ Cardinality(AllEnsembles(n)) = 4
            /\ Cardinality(InputNodes(n)) = 2

C7_Witness ==
    /\ Len(sims) = 2
    /\ sims[2].n_steps = 0
    /\ DOMAIN sims[2].data = 7..12
    /\ probes[7].synapse = "None"
    /\ probes[11].synapse = "0.01"
    /\ probes[11].target = networks[env["prod"].i].attrs["combined"]

\* C8: with the cells run once each in document order, every sim.data[p] is
\* read after the run of the simulator bound to sim has completed, and p is
\* a probe made in the model that simulator was built from; the bonus cell
\* rebinds model, A, B, prod and the six probe names before it builds its
\* simulator; and no name is read before it is bound.
C8_ReadsAfterRun ==
    /\ error = "none"
    /\ \A r \in DOMAIN dataReads :
          /\ dataReads[r].closed
          /\ ~dataReads[r].running
          /\ dataReads[r].n_steps = RunSteps(5)
          /\ dataReads[r].probe \in DOMAIN sims[dataReads[r].sim].data
          /\ probes[dataReads[r].probe].net = sims[dataReads[r].sim].net
    /\ (Running /\ ~InCall /\ Cur.op = "simulator") =>
          LET m == env["model"].i
          IN  /\ \A nm \in ProbeNames :
                    /\ env[nm].k = "probe"
                    /\ probes[env[nm].i].net = m
              /\ \A nm \in {"A", "B"} :
                    /\ env[nm].k = "ensemble"
                    /\ ensembles[env[nm].i].net = m
              /\ \/ /\ env["prod"].k = "ensemble"
                    /\ ensembles[env["prod"].i].net = m
                 \/ /\ env["prod"].k = "network"
                    /\ networks[env["prod"].i].parent = m
    /\ (Running /\ ~InCall /\ Cur.op = "plot") =>
          /\ env["sim"].k = "simulator"
          /\ sims[env["sim"].i].closed
          /\ \A nm \in ProbeNames :
                env[nm].i \in DOMAIN sims[env["sim"].i].data

C8_Witness ==
    /\ Done
    /\ error = "none"
    /\ Len(dataReads) = 6
    /\ dataReads[4].sim = 2
    /\ dataReads[4].probe = 9
    /\ dataReads[1].sim = 1
    /\ dataReads[1].probe = 3

\* C9: at every time of the run the ideal signals stay inside the radius of
\* the ensemble that carries them: |inputA| <= 10, |inputB| <= 10,
\* inputA^2 + inputB^2 <= 15^2 and <= 10^2 + 10^2, |inputA * inputB| <= 20.
C9_SignalsWithinRadius ==
    \A s \in DOMAIN sims :
        LET n == sims[s].net
            a == InputAt(s, "inputA")
            b == InputAt(s, "inputB")
        IN  /\ a * a <= 10 * 10
            /\ a * a <= ensembles[EnsembleNamed(n, "A")].radiusSq
            /\ b * b <= 10 * 10
            /\ b * b <= ensembles[EnsembleNamed(n, "B")].radiusSq
            /\ a * a + b * b <= 15 * 15
            /\ a * a + b * b <= 10 * 10 + 10 * 10
            /\ a * a + b * b
                 <= ensembles[EnsembleNamed(n, "combined")].radiusSq
            /\ (a * b) * (a * b) <= 20 * 20
            /\ (a * b) * (a * b)
                 <= ensembles[EnsembleNamed(n, "prod")].radiusSq
            /\ \A e \in AllEnsembles(n) :
                  SumSq(s, [k |-> "ensemble", i |-> e],
                        ensembles[e].dimensions) <= ensembles[e].radiusSq

C9_Witness ==
    /\ Len(sims) = 2
    /\ SimTime(2) = 2700
    /\ InputAt(2, "inputA") = 10
    /\ InputAt(2, "inputB") = 2
    /\ SumSq(2, [k |-> "ensemble", i |-> EnsembleNamed(sims[2].net, "prod")],
             1) = 20 * 20
    /\ SumSq(2, [k |-> "ensemble",
                 i |-> EnsembleNamed(sims[2].net, "combined")], 2) = 104

\* C10: for every network built by Product with input_magnitude m > 0 and
\* every pair of inputs a, b with |a| <= m and |b| <= m, the combined vector
\* (a, b) lies within the radius of combined (a^2 + b^2 <= m^2 + m^2) and
\* the ideal output a * b within the radius of prod (|a * b| <= 2 * m).
C10_ProductWithinRadius ==
    drive.net # 0 =>
        LET comb == networks[drive.net].attrs["combined"]
            prd == networks[drive.net].attrs["prod"]
        IN  /\ SumSq(0, comb, 2) <= ensembles[comb.i].radiusSq
            /\ SumSq(0, prd, 1) <= ensembles[prd.i].radiusSq

====
